---- MODULE Spec2Model ----
(***************************************************************************)
(* The analyzer page (src/app/page.tsx), its record modal (RecordModal)    *)
(* and the analyzeAudio server action, as one state machine.  Each action  *)
(* is one event-loop task of the browser: a user event handler, a promise  *)
(* continuation, a timer callback or a media event.  React state updates   *)
(* made inside one task are committed together.                            *)
(***************************************************************************)
EXTENDS Integers, Sequences, FiniteSets, TLC

\* Bounds of the model.
MaxRuns == 2        \* audio inputs (files accepted + recordings started) per behaviour
MaxSegments == 2    \* longest segments list the analysis service returns

----------------------------------------------------------------------------
\* Values

NULL == "null"

\* A MIME type is the sequence of its characters, so that startsWith is computed.
AudioPrefix == <<"a", "u", "d", "i", "o", "/">>

\* Mutant of StartsWith: String.prototype.includes.
Includes(s, p) ==
    \E i \in 1..(Len(s) - Len(p) + 1) : SubSeq(s, i, i + Len(p) - 1) = p

\* String.prototype.startsWith
StartsWith(s, p) == Len(s) >= Len(p) /\ SubSeq(s, 1, Len(p)) = p

\* The files the user can pick: an audio file and three that are not audio
\* (a text file, a type that contains but does not start with "audio/", and a
\* file of unknown type, whose File.type is the empty string).
Files ==
    { [name |-> "song.mp3",  type |-> <<"a", "u", "d", "i", "o", "/", "m", "p", "3">>],
      [name |-> "notes.txt", type |-> <<"t", "e", "x", "t", "/", "p", "l", "a", "i", "n">>],
      [name |-> "odd.bin",   type |-> <<"x", "-", "a", "u", "d", "i", "o", "/", "x">>],
      [name |-> "blank",     type |-> <<>>] }

\* e.target.files: an empty FileList or one file.
FileLists == {<<>>} \cup { <<f>> : f \in Files }

\* The genre label of the response to request r; like the segments, it is
\* opaque to the page, and responses to different requests differ.
Genres == <<"Rock", "Jazz">>
GenreOf(r) == Genres[((r - 1) % Len(Genres)) + 1]

InvalidFileMsg == "Please upload a valid audio file."
ProcessErrorMsg == "There was an error processing your audio. Please try again."
ProcessLogMsg == "Error processing audio:"
RecordLogMsg == "Error starting recording:"

\* Segment k of the response to request r; its content is opaque to the page.
Seg(r, k) == [req |-> r, timeSec |-> k]
\* What segments[i] evaluates to past the end of the array.
Undefined == [req |-> 0, timeSec |-> 0]

\* segments[i] for a 0-based JavaScript index i.
At(segments, i) == IF i >= 0 /\ i < Len(segments) THEN segments[i + 1] ELSE Undefined

\* The Blob handed to processAudio: the picked File, or the recorded clip.
FileBlob(file) == <<"file", file.name>>
RecordedBlob(s) == <<"recording", s>>

NullUrl == <<>>
\* URL.createObjectURL of the blob recorded by capture session s.
ObjectUrl(s) == <<"blob", s>>

----------------------------------------------------------------------------
\* State

VARIABLES
    \* Home (page.tsx) React state
    stage, recordedAudioUrl, uploadedAudioUrl, songName, artistName,
    serverSegments, animatedSegments, predictedGenre, error, showRecordModal,
    \* the file input of AudioUploadControls (DOM state: its current FileList).
    \* The input is rendered in the idle stage only: leaving idle unmounts it
    \* and a later idle stage mounts a new, empty one.
    inputFiles,
    \* the analyses in flight, one per processAudio call or pending blob fetch:
    \* the closure of processAudio / animateSegments and where it stands
    runs,
    \* the POSTs analyzeAudio has sent, each the list of its form fields
    requests,
    \* what console.error has been called with
    consoleErrors,
    \* RecordModal: React state and refs of the mounted instance
    isRecording, mediaRecorderRef, mediaStreamRef,
    \* every getUserMedia call made by a RecordModal instance, with the stream
    \* and MediaRecorder it led to
    sessions,
    \* history: TRUE from resetApp until the user next provides or records input
    afterReset,
    \* which Home component the browser has mounted: "current" is
    \* src/app/page.tsx, "simulated" an earlier revision whose processing is
    \* simulated by timers
    home,
    \* SpeakerWithWaves: its two intervals (TRUE while armed), the notes on
    \* screen, the order of the three waves, the pending 3 s removal timeouts
    \* and the number of notes spawned so far (the source of uuidv4 ids)
    shuffleInterval, noteInterval, musicNotes, shuffledSentiments,
    noteTimeouts, noteSeq,
    \* the simulated Home: its segments state, its genres, the ref and the
    \* pending frame of the sentiment animation loop, the pending 2 s upload
    \* timeouts, the startProcessing calls, and the recorder panel with the
    \* refs of the mounted AudioRecorder
    segments, genres, rafId, rafPending, uploadTimeouts, lockIntervals,
    showRecorder, mediaStream, mediaRecorder,
    \* the audio-level monitor of RecordModal: per capture session the
    \* RecordModal instance that made it and whether its monitorAudioLevel
    \* loop has a frame pending; per instance its animationFrameRef; and the
    \* mounted instance.  An instance is named by its first session.
    monitors, animationFrameRefs, modalKey,
    \* the timers of SpeakerWithWaves on a clock whose unit is the 500 ms period
    \* of the note interval: the time since the shuffle interval and the note
    \* interval were armed or last fired, the time stage processing has lasted
    \* since the last shuffle, and the age of each note's removal timeout
    shuffleElapsed, noteElapsed, sinceShuffle, noteAges,
    \* the circular chart: the points last handed to generateSmoothPath and
    \* the path it returned, as the list of its commands
    points, path,
    \* the genre candidates of the finish timeout with the scores drawn for them
    scoredGenres

pageVars == <<stage, recordedAudioUrl, uploadedAudioUrl, songName, artistName,
              serverSegments, animatedSegments, predictedGenre, error,
              showRecordModal, inputFiles>>
netVars == <<runs, requests>>
modalVars == <<isRecording, mediaRecorderRef, mediaStreamRef, sessions>>
wavesVars == <<shuffleInterval, noteInterval, musicNotes, shuffledSentiments,
               noteTimeouts, noteSeq>>
\* What the handlers of the current page and of its record modal never touch.
simVars == <<segments, genres, rafId, rafPending, uploadTimeouts, lockIntervals,
             showRecorder, mediaStream, mediaRecorder>>
monitorVars == <<monitors, animationFrameRefs, modalKey>>
clockVars == <<shuffleElapsed, noteElapsed, sinceShuffle, noteAges>>
pathVars == <<points, path>>
genreVars == <<scoredGenres>>
viewVars == <<home, wavesVars, simVars, monitorVars, clockVars, pathVars, genreVars>>
vars == <<pageVars, netVars, consoleErrors, modalVars, afterReset, viewVars>>

\* useState initial values of Home, and an empty environment.
Init ==
    /\ stage = "idle"
    /\ recordedAudioUrl = NullUrl
    /\ uploadedAudioUrl = NullUrl
    /\ songName = "Unknown"
    /\ artistName = "Unknown"
    /\ serverSegments = <<>>
    /\ animatedSegments = <<>>
    /\ predictedGenre = NULL
    /\ error = NULL
    /\ showRecordModal = FALSE
    /\ inputFiles = <<>>
    /\ runs = <<>>
    /\ requests = <<>>
    /\ consoleErrors = {}
    /\ isRecording = FALSE
    /\ mediaRecorderRef = 0
    /\ mediaStreamRef = 0
    /\ sessions = <<>>
    /\ afterReset = FALSE
    /\ home = "current"
    /\ shuffleInterval = FALSE
    /\ noteInterval = FALSE
    /\ musicNotes = {}
    /\ shuffledSentiments = <<[sentiment |-> "valence", opacity |-> 60],
                              [sentiment |-> "arousal", opacity |-> 50],
                              [sentiment |-> "dominance", opacity |-> 40]>>
    /\ noteTimeouts = {}
    /\ noteSeq = 0
    /\ segments = <<>>
    /\ genres = <<>>
    /\ rafId = 0
    /\ rafPending = FALSE
    /\ uploadTimeouts = 0
    /\ lockIntervals = <<>>
    /\ showRecorder = FALSE
    /\ mediaStream = 0
    /\ mediaRecorder = 0
    /\ monitors = <<>>
    /\ animationFrameRefs = <<>>
    /\ modalKey = 0
    /\ shuffleElapsed = 0
    /\ noteElapsed = 0
    /\ sinceShuffle = 0
    /\ noteAges = <<>>
    /\ points = <<>>
    /\ path = <<>>
    /\ scoredGenres = <<>>

\* The number of audio inputs the behaviour has used up: the files accepted and
\* the recordings started.  MaxRuns caps it.
InputsUsed == Cardinality({r \in 1..Len(runs) : runs[r].src = "file"}) + Len(sessions)

----------------------------------------------------------------------------
\* analyzeAudio (the server action) and processAudio

\* What axios.post settles with: resolved with a 2xx status and the body, or
\* rejected (a status outside 2xx, or no response at all).
ResolvedStatuses == {200, 204}
RejectedStatuses == {500, 0}
Bodies(r) ==
    { [segments |-> [k \in 1..n |-> Seg(r, k)], genre |-> GenreOf(r)] :
        n \in 0..MaxSegments }
Responses(r) ==
    { [settled |-> "resolved", status |-> st, data |-> b] :
        st \in ResolvedStatuses, b \in Bodies(r) }
    \cup { [settled |-> "rejected", status |-> st, data |-> NULL] : st \in RejectedStatuses }

\* Mutant of AnalyzeAudio: the status check is missing.
AnalyzeAudioAnyStatus(response) ==
    IF response.settled = "rejected" THEN [threw |-> TRUE, value |-> NULL]
    ELSE [threw |-> FALSE, value |-> response.data]

\* analyzeAudio after the await: throws unless the response status is 200,
\* and returns response.data otherwise.
AnalyzeAudio(response) ==
    IF response.settled = "rejected" THEN [threw |-> TRUE, value |-> NULL]
    ELSE IF response.status /= 200 THEN [threw |-> TRUE, value |-> NULL]
    ELSE [threw |-> FALSE, value |-> response.data]

\* formData = new FormData(); formData.append("audio", audioBlob)
FormDataOf(blob) == <<[name |-> "audio", value |-> blob]>>

\* status is response.status once axios.post has settled (0: no response), and
\* -1 before.
NewRun(src, blob, phase) ==
    [src |-> src, blob |-> blob, phase |-> phase, status |-> -1,
     segments |-> <<>>, genre |-> NULL, currentIdx |-> 0]

\* processAudio up to its await: the form is built and the POST is sent.
\* Run r is the call's closure.
ProcessAudioCall(r, src, blob) ==
    /\ runs' = IF r > Len(runs)
                 THEN Append(runs, NewRun(src, blob, "http"))
                 ELSE [runs EXCEPT ![r].phase = "http"]
    /\ requests' = Append(requests, FormDataOf(blob))

\* Mutant of ProcessAudioSettled: the catch block sends the request again.
ProcessAudioSettledRetry(r, response) ==
    /\ r \in 1..Len(runs)
    /\ runs[r].phase = "http"
    /\ LET res == AnalyzeAudio(response) IN
       IF res.threw
         THEN /\ consoleErrors' = consoleErrors \cup {ProcessLogMsg}
              /\ error' = ProcessErrorMsg
              /\ requests' = Append(requests, FormDataOf(runs[r].blob))
              /\ UNCHANGED <<runs, stage, serverSegments, predictedGenre, inputFiles>>
         ELSE /\ serverSegments' = res.value.segments
              /\ predictedGenre' = res.value.genre
              /\ stage' = "uploading"
              /\ inputFiles' = <<>>
              /\ runs' = [runs EXCEPT ![r].phase = "timeout",
                                      ![r].status = response.status,
                                      ![r].segments = res.value.segments,
                                      ![r].genre = res.value.genre]
              /\ UNCHANGED <<error, consoleErrors, requests>>
    /\ UNCHANGED <<recordedAudioUrl, uploadedAudioUrl, songName, artistName,
                   animatedSegments, showRecordModal, modalVars, afterReset>>

\* processAudio after the await, when analyzeAudio has settled for run r.
ProcessAudioSettled(r, response) ==
    /\ r \in 1..Len(runs)
    /\ runs[r].phase = "http"
    /\ LET res == AnalyzeAudio(response) IN
       IF res.threw
         THEN /\ consoleErrors' = consoleErrors \cup {ProcessLogMsg}
              /\ error' = ProcessErrorMsg
              /\ runs' = [runs EXCEPT ![r].phase = "failed",
                                      ![r].status = response.status]
              /\ UNCHANGED <<stage, serverSegments, predictedGenre, inputFiles>>
         ELSE /\ serverSegments' = res.value.segments
              /\ predictedGenre' = res.value.genre
              /\ stage' = "uploading"
              /\ inputFiles' = <<>>
              \* setTimeout(..., 2000) is armed
              /\ runs' = [runs EXCEPT ![r].phase = "timeout",
                                      ![r].status = response.status,
                                      ![r].segments = res.value.segments,
                                      ![r].genre = res.value.genre]
              /\ UNCHANGED <<error, consoleErrors>>
    /\ UNCHANGED <<recordedAudioUrl, uploadedAudioUrl, songName, artistName,
                   animatedSegments, showRecordModal, requests, modalVars, afterReset>>

\* The 2-second timeout of processAudio fires: stage becomes processing and
\* animateSegments arms its interval with currentIdx = 0.
UploadTimeout(r) ==
    /\ r \in 1..Len(runs)
    /\ runs[r].phase = "timeout"
    /\ stage' = "processing"
    /\ inputFiles' = <<>>
    /\ runs' = [runs EXCEPT ![r].phase = "interval", ![r].currentIdx = 0]
    /\ UNCHANGED <<recordedAudioUrl, uploadedAudioUrl, songName, artistName,
                   serverSegments, animatedSegments, predictedGenre, error,
                   showRecordModal, requests, consoleErrors, modalVars, afterReset>>

\* The indices the updater (prev) => [...prev, segments[currentIdx]] can read.
\* React runs the updater at once when the hook's queue is empty, and otherwise
\* during the next render, after the callback's currentIdx++ has run: which of
\* the two happens is not the code's choice.
UpdaterIndices(idx) == {idx, idx + 1}

\* One tick of the interval of animateSegments.
AnimateTick(r, readIdx) ==
    /\ r \in 1..Len(runs)
    /\ runs[r].phase = "interval"
    /\ readIdx \in UpdaterIndices(runs[r].currentIdx)
    /\ animatedSegments' = Append(animatedSegments, At(runs[r].segments, readIdx))
    /\ LET next == runs[r].currentIdx + 1 IN
       IF next >= Len(runs[r].segments)
         THEN \* clearInterval; setStage("finished")
              /\ runs' = [runs EXCEPT ![r].phase = "done", ![r].currentIdx = next]
              /\ stage' = "finished"
              /\ inputFiles' = <<>>
         ELSE /\ runs' = [runs EXCEPT ![r].currentIdx = next]
              /\ UNCHANGED <<stage, inputFiles>>
    /\ UNCHANGED <<recordedAudioUrl, uploadedAudioUrl, songName, artistName,
                   serverSegments, predictedGenre, error, showRecordModal,
                   requests, consoleErrors, modalVars, afterReset>>

----------------------------------------------------------------------------
\* Home: user event handlers

\* onChange of the file input (rendered in the idle stage only; the event
\* fires when the selection changes).
HandleFileUpload(files) ==
    /\ stage = "idle"
    /\ files \in FileLists
    /\ files /= inputFiles
    /\ inputFiles' = files
    /\ IF Len(files) = 0
         THEN UNCHANGED <<error, songName, artistName, netVars, afterReset>>
         ELSE LET file == files[1] IN
              IF ~StartsWith(file.type, AudioPrefix)
                THEN /\ error' = InvalidFileMsg
                     /\ UNCHANGED <<songName, artistName, netVars, afterReset>>
                ELSE /\ InputsUsed < MaxRuns
                     /\ error' = NULL
                     /\ songName' = file.name
                     /\ artistName' = "Unknown"
                     /\ ProcessAudioCall(Len(runs) + 1, "file", FileBlob(file))
                     /\ afterReset' = FALSE
    /\ UNCHANGED <<stage, recordedAudioUrl, uploadedAudioUrl, serverSegments,
                   animatedSegments, predictedGenre, showRecordModal,
                   consoleErrors, modalVars>>

\* The Home button of TopMenu, rendered in every stage.
ResetApp ==
    /\ stage' = "idle"
    /\ recordedAudioUrl' = NullUrl
    /\ uploadedAudioUrl' = NullUrl
    /\ predictedGenre' = NULL
    /\ serverSegments' = <<>>
    /\ animatedSegments' = <<>>
    /\ afterReset' = TRUE
    /\ UNCHANGED <<songName, artistName, error, showRecordModal, inputFiles,
                   netVars, consoleErrors, modalVars>>

\* The Record button of AudioUploadControls (idle stage only) mounts the modal.
OnRecordClick ==
    /\ stage = "idle"
    /\ showRecordModal' = TRUE
    /\ UNCHANGED <<stage, recordedAudioUrl, uploadedAudioUrl, songName, artistName,
                   serverSegments, animatedSegments, predictedGenre, error,
                   inputFiles, netVars, consoleErrors, modalVars, afterReset>>

----------------------------------------------------------------------------
\* RecordModal

\* A capture session: one startRecording call.  attached: the call awaits
\* getUserMedia and the RecordModal instance that made it is still mounted, so
\* that the refs and state it will write are the ones in mediaStreamRef,
\* mediaRecorderRef and isRecording.  live: the stream's tracks are live.
\* rec: the MediaRecorder's state.  stopPending: its stop event is queued and
\* onstop has not run yet.
NewSession ==
    [attached |-> TRUE, acq |-> "pending", live |-> FALSE, rec |-> "none",
     stopPending |-> FALSE]

\* MediaRecorder.stop(): a recording recorder becomes inactive and its stop
\* event is queued; an inactive one is left as it is.
RecorderStop(ss, s) ==
    IF s /= 0 /\ ss[s].rec = "recording"
      THEN [ss EXCEPT ![s].rec = "inactive", ![s].stopPending = TRUE]
      ELSE ss

\* stream.getTracks().forEach(track => track.stop()).  A MediaRecorder whose
\* tracks have all ended stops recording and gets its stop event.
StopTracks(ss, s) ==
    IF s /= 0
      THEN RecorderStop([ss EXCEPT ![s].live = FALSE], s)
      ELSE ss

\* The effect cleanup of RecordModal, run when the modal unmounts, on the
\* sessions; afterwards no session belongs to a mounted instance.
UnmountCleanup(ss) ==
    LET stopped == StopTracks(ss, mediaStreamRef) IN
    [s \in 1..Len(ss) |-> [stopped[s] EXCEPT !.attached = FALSE]]

\* The modal's state once no instance is mounted.
ModalGone ==
    /\ isRecording' = FALSE
    /\ mediaRecorderRef' = 0
    /\ mediaStreamRef' = 0

\* Click on "Start Recording" (shown while isRecording is false): startRecording
\* up to its await of getUserMedia.
StartRecording ==
    /\ showRecordModal
    /\ ~isRecording
    /\ InputsUsed < MaxRuns
    /\ sessions' = Append(sessions, NewSession)
    /\ afterReset' = FALSE
    /\ UNCHANGED <<pageVars, netVars, consoleErrors, isRecording,
                   mediaRecorderRef, mediaStreamRef>>

\* getUserMedia resolves for session s: startRecording runs to its end.  The
\* refs and the state it writes are those of the instance that made the call.
GetUserMediaResolved(s) ==
    /\ s \in 1..Len(sessions)
    /\ sessions[s].acq = "pending"
    /\ sessions' = [sessions EXCEPT ![s].acq = "granted", ![s].live = TRUE,
                                    ![s].rec = "recording", ![s].attached = FALSE]
    /\ IF sessions[s].attached
         THEN /\ mediaStreamRef' = s
              /\ mediaRecorderRef' = s
              /\ isRecording' = TRUE
         ELSE UNCHANGED <<mediaStreamRef, mediaRecorderRef, isRecording>>
    /\ UNCHANGED <<pageVars, netVars, consoleErrors, afterReset>>

\* getUserMedia rejects for session s (permission denied, no device): the
\* catch block of startRecording.
GetUserMediaRejected(s) ==
    /\ s \in 1..Len(sessions)
    /\ sessions[s].acq = "pending"
    /\ sessions' = [sessions EXCEPT ![s].acq = "denied", ![s].attached = FALSE]
    /\ consoleErrors' = consoleErrors \cup {RecordLogMsg}
    /\ UNCHANGED <<pageVars, netVars, isRecording, mediaRecorderRef,
                   mediaStreamRef, afterReset>>

\* Click on "Stop Recording" (shown while isRecording is true).
StopRecording ==
    /\ showRecordModal
    /\ isRecording
    /\ LET stopped == IF mediaRecorderRef /= 0 /\ isRecording
                        THEN RecorderStop(sessions, mediaRecorderRef)
                        ELSE sessions
       IN sessions' = StopTracks(stopped, mediaStreamRef)
    /\ isRecording' = FALSE
    /\ afterReset' = FALSE
    /\ UNCHANGED <<pageVars, netVars, consoleErrors, mediaRecorderRef, mediaStreamRef>>

\* Cancel, or a click on the backdrop: onClose, and the modal unmounts.
CloseModal ==
    /\ showRecordModal
    /\ showRecordModal' = FALSE
    /\ sessions' = UnmountCleanup(sessions)
    /\ ModalGone
    /\ UNCHANGED <<stage, recordedAudioUrl, uploadedAudioUrl, songName, artistName,
                   serverSegments, animatedSegments, predictedGenre, error,
                   inputFiles, netVars, consoleErrors, afterReset>>

\* The stop event of session s's MediaRecorder: recorder.onstop, which calls
\* the page's onRecordingComplete(url).
RecorderOnStop(s) ==
    /\ s \in 1..Len(sessions)
    /\ sessions[s].stopPending
    /\ recordedAudioUrl' = ObjectUrl(s)
    /\ showRecordModal' = FALSE
    /\ stage' = "uploading"
    /\ inputFiles' = <<>>
    \* fetch(url) is pending
    /\ runs' = Append(runs, NewRun("recording", RecordedBlob(s), "fetchBlob"))
    /\ LET fired == [sessions EXCEPT ![s].stopPending = FALSE] IN
       IF showRecordModal
         THEN sessions' = UnmountCleanup(fired) /\ ModalGone
         ELSE sessions' = fired /\ UNCHANGED <<isRecording, mediaRecorderRef, mediaStreamRef>>
    /\ afterReset' = FALSE
    /\ UNCHANGED <<uploadedAudioUrl, songName, artistName, serverSegments,
                   animatedSegments, predictedGenre, error, requests, consoleErrors>>

\* fetch(url).then(res => res.blob()) has the recorded blob: processAudio(blob).
BlobFetched(r) ==
    /\ r \in 1..Len(runs)
    /\ runs[r].phase = "fetchBlob"
    /\ ProcessAudioCall(r, runs[r].src, runs[r].blob)
    /\ UNCHANGED <<pageVars, consoleErrors, modalVars, afterReset>>

----------------------------------------------------------------------------
\* The specification

RunIds == 1..MaxRuns

\* One task of the current page or of its record modal.  None of its handlers
\* touches another view's state.
Next ==
    \/ \E files \in FileLists : HandleFileUpload(files) /\ UNCHANGED viewVars
    \/ ResetApp /\ UNCHANGED viewVars
    \/ OnRecordClick /\ UNCHANGED viewVars
    \/ \E r \in RunIds : \E response \in Responses(r) :
          ProcessAudioSettled(r, response) /\ UNCHANGED viewVars
    \/ \E r \in RunIds : UploadTimeout(r) /\ UNCHANGED viewVars
    \/ \E r \in RunIds : \E i \in 0..(MaxSegments + 1) :
          AnimateTick(r, i) /\ UNCHANGED viewVars
    \/ StartRecording /\ UNCHANGED viewVars
    \/ \E s \in RunIds : GetUserMediaResolved(s) /\ UNCHANGED viewVars
    \/ \E s \in RunIds : GetUserMediaRejected(s) /\ UNCHANGED viewVars
    \/ StopRecording /\ UNCHANGED viewVars
    \/ CloseModal /\ UNCHANGED viewVars
    \/ \E s \in RunIds : RecorderOnStop(s) /\ UNCHANGED viewVars
    \/ \E r \in RunIds : BlobFetched(r) /\ UNCHANGED viewVars

Spec == Init /\ [][Next]_vars

----------------------------------------------------------------------------
\* The audio-level monitor of RecordModal: monitorAudioLevel reads the
\* analyser, sets audioLevel and requests the next frame, whose id it stores in
\* the animationFrameRef of its instance.  The handlers below are those of the
\* record modal, each with what it does to the monitor.

\* The sessions whose monitor loop has a frame pending.
PendingFrames == {s \in 1..Len(monitors) : monitors[s].pending}

\* stopAudioLevelMonitor of the instance key: the frame whose id the ref holds
\* is cancelled, which ends the loop that requested it.
StopAudioLevelMonitor(ms, key) ==
    IF key /= 0 /\ animationFrameRefs[key] /= 0
      THEN [ms EXCEPT ![animationFrameRefs[key]].pending = FALSE]
      ELSE ms

\* Click on "Record": the modal mounts, a new RecordModal instance.
MonitoredOnRecordClick ==
    /\ OnRecordClick
    /\ UNCHANGED monitorVars

\* startRecording up to its await.
MonitoredStartRecording ==
    /\ StartRecording
    /\ LET key == IF modalKey = 0 THEN Len(sessions) + 1 ELSE modalKey IN
       /\ monitors' = Append(monitors, [inst |-> key, pending |-> FALSE])
       /\ modalKey' = key
    /\ animationFrameRefs' = Append(animationFrameRefs, 0)

\* startRecording after its await: analyserRef is set and monitorAudioLevel()
\* is called, which requests the first frame.
MonitoredGetUserMediaResolved(s) ==
    /\ GetUserMediaResolved(s)
    /\ monitors' = [monitors EXCEPT ![s].pending = TRUE]
    /\ animationFrameRefs' = [animationFrameRefs EXCEPT ![monitors[s].inst] = s]
    /\ UNCHANGED modalKey

MonitoredGetUserMediaRejected(s) ==
    /\ GetUserMediaRejected(s)
    /\ UNCHANGED monitorVars

\* stopRecording does not stop the monitor.
MonitoredStopRecording ==
    /\ StopRecording
    /\ UNCHANGED monitorVars

\* The modal unmounts: the effect cleanup calls stopAudioLevelMonitor.
MonitoredCloseModal ==
    /\ CloseModal
    /\ monitors' = StopAudioLevelMonitor(monitors, modalKey)
    /\ modalKey' = 0
    /\ UNCHANGED animationFrameRefs

\* recorder.onstop of session s: after onRecordingComplete it calls
\* stopAudioLevelMonitor of the instance that made the session; the page has
\* closed the modal, whose cleanup calls it for the mounted instance.
MonitoredRecorderOnStop(s) ==
    /\ RecorderOnStop(s)
    /\ monitors' = StopAudioLevelMonitor(StopAudioLevelMonitor(monitors, monitors[s].inst),
                                         modalKey)
    /\ modalKey' = 0
    /\ UNCHANGED animationFrameRefs

\* A frame of the loop of session s: monitorAudioLevel.
MonitorAudioLevel(s) ==
    /\ s \in PendingFrames
    /\ animationFrameRefs' = [animationFrameRefs EXCEPT ![monitors[s].inst] = s]
    /\ UNCHANGED <<monitors, modalKey, pageVars, netVars, consoleErrors, modalVars,
                   afterReset>>

\* What the record modal never touches.
modalFrame == <<home, wavesVars, simVars, clockVars, pathVars, genreVars>>

ModalNext ==
    \/ MonitoredOnRecordClick /\ UNCHANGED modalFrame
    \/ MonitoredStartRecording /\ UNCHANGED modalFrame
    \/ \E s \in RunIds : MonitoredGetUserMediaResolved(s) /\ UNCHANGED modalFrame
    \/ \E s \in RunIds : MonitoredGetUserMediaRejected(s) /\ UNCHANGED modalFrame
    \/ MonitoredStopRecording /\ UNCHANGED modalFrame
    \/ MonitoredCloseModal /\ UNCHANGED modalFrame
    \/ \E s \in RunIds : MonitoredRecorderOnStop(s) /\ UNCHANGED modalFrame
    \/ \E s \in RunIds : MonitorAudioLevel(s) /\ UNCHANGED modalFrame

ModalSpec == Init /\ [][ModalNext]_vars

----------------------------------------------------------------------------
\* SpeakerWithWaves (components/SpeakerWithWaves.tsx), rendered by the current
\* page in the processing stage and, as another instance, in the finished
\* stage.  Its parent is seen through the stage it passes down.

MaxNotes == 2       \* notes one behaviour spawns

Sentiments == <<"valence", "arousal", "dominance">>
Opacities == <<60, 50, 40>>     \* in hundredths

\* shuffleArray: sort with a random comparator, any order may come out.
ShuffleArray(array) ==
    { [i \in 1..Len(array) |-> array[f[i]]] : f \in Permutations(1..Len(array)) }

\* What the shuffle computes: the sentiments in a random order, each with one
\* of the opacities.
Shuffled ==
    { [i \in 1..Len(Sentiments) |-> [sentiment |-> shuf[i], opacity |-> opacities[i]]] :
        shuf \in ShuffleArray(Sentiments), opacities \in ShuffleArray(Opacities) }

\* Mutant of ClearInterval and of CancelAnimationFrame: nothing is cancelled.
LeaveArmed(interval) == interval

\* clearInterval in an effect's cleanup.
ClearInterval(interval) == FALSE

\* The shuffle effect and the notes effect: after the cleanup of the previous
\* run, the interval is armed in the processing stage only.
IntervalEffect(interval, stageProp) ==
    IF stageProp = "processing" THEN TRUE ELSE ClearInterval(interval)

\* A setStage of the current page, seen from SpeakerWithWaves: the instance of
\* the stage left unmounts (its cleanups run, its state is gone) and the
\* processing and finished stages mount a new one.
PageSetStage(next) ==
    /\ home = "current"
    /\ next /= stage
    /\ stage' = next
    /\ shuffleInterval' = IntervalEffect(shuffleInterval, next)
    /\ noteInterval' = IntervalEffect(noteInterval, next)
    /\ musicNotes' = {}
    /\ IF next \in {"processing", "finished"}
          THEN shuffledSentiments' \in Shuffled
          ELSE UNCHANGED shuffledSentiments
    /\ UNCHANGED <<noteTimeouts, noteSeq>>

\* The callback of the 2 s interval.  The render that follows runs the effect
\* again, because sentiments is a new array in every render.
ShuffleTick ==
    /\ home = "current"
    /\ shuffleInterval
    /\ shuffledSentiments' \in Shuffled
    /\ shuffleInterval' = IntervalEffect(shuffleInterval, stage)
    /\ UNCHANGED <<stage, noteInterval, musicNotes, noteTimeouts, noteSeq>>

\* The callback of the 500 ms interval: a new note, and the timeout that
\* removes it 3 s later.
NoteSpawnTick ==
    /\ home = "current"
    /\ noteInterval
    /\ noteSeq < MaxNotes
    /\ noteSeq' = noteSeq + 1
    /\ musicNotes' = musicNotes \cup {noteSeq'}
    /\ noteTimeouts' = noteTimeouts \cup {noteSeq'}
    /\ shuffleInterval' = IntervalEffect(shuffleInterval, stage)
    /\ UNCHANGED <<stage, noteInterval, shuffledSentiments>>

\* Mutant of NoteTimeout: the timeout fires and filters nothing.
NoteTimeoutKeepsNote(id) ==
    /\ home = "current"
    /\ id \in noteTimeouts
    /\ noteTimeouts' = noteTimeouts \ {id}
    /\ musicNotes' = musicNotes
    /\ shuffleInterval' = IntervalEffect(shuffleInterval, stage)
    /\ UNCHANGED <<stage, noteInterval, shuffledSentiments, noteSeq>>

\* The 3 s timeout of note id: nothing cancels it, and it filters the notes of
\* the instance that is mounted then.
NoteTimeout(id) ==
    /\ home = "current"
    /\ id \in noteTimeouts
    /\ noteTimeouts' = noteTimeouts \ {id}
    /\ musicNotes' = musicNotes \ {id}
    /\ shuffleInterval' = IntervalEffect(shuffleInterval, stage)
    /\ UNCHANGED <<stage, noteInterval, shuffledSentiments, noteSeq>>

\* MusicNote's onTransitionEnd -> onAnimationEnd(id).
NoteTransitionEnd(id) ==
    /\ home = "current"
    /\ id \in musicNotes
    /\ musicNotes' = musicNotes \ {id}
    /\ shuffleInterval' = IntervalEffect(shuffleInterval, stage)
    /\ UNCHANGED <<stage, noteInterval, shuffledSentiments, noteTimeouts, noteSeq>>

NoteIds == 1..MaxNotes
Stages == {"idle", "uploading", "processing", "finished"}

\* What SpeakerWithWaves and the stage it is given never touch.
wavesFrame == <<recordedAudioUrl, uploadedAudioUrl, songName, artistName,
                serverSegments, animatedSegments, predictedGenre, error,
                showRecordModal, inputFiles, netVars, consoleErrors, modalVars,
                afterReset, home, simVars, monitorVars, clockVars, pathVars,
                genreVars>>

WavesNext ==
    \/ \E next \in Stages : PageSetStage(next) /\ UNCHANGED wavesFrame
    \/ ShuffleTick /\ UNCHANGED wavesFrame
    \/ NoteSpawnTick /\ UNCHANGED wavesFrame
    \/ \E id \in NoteIds : NoteTimeout(id) /\ UNCHANGED wavesFrame
    \/ \E id \in NoteIds : NoteTransitionEnd(id) /\ UNCHANGED wavesFrame

WavesSpec == Init /\ [][WavesNext]_vars

\* A timeout that is set fires: each note's removal timeout is scheduled fairly.
NoteTimeoutFairness ==
    \A id \in NoteIds : WF_vars(NoteTimeout(id) /\ UNCHANGED wavesFrame)

WavesLiveSpec == Init /\ [][WavesNext]_vars /\ NoteTimeoutFairness

----------------------------------------------------------------------------
\* SpeakerWithWaves on a clock.  The unit is the period of the note interval;
\* a timer fires no earlier than its delay and may fire late.

NotePeriod == 1         \* setInterval(..., 500)
ShufflePeriod == 4      \* setInterval(..., 2000)
NoteLife == 6           \* setTimeout(..., 3000); the 3s transition ends no earlier

\* A clock one unit later, stopped at its cap.
Later(clock, cap) == IF clock < cap THEN clock + 1 ELSE cap

\* The shuffle effect run by a render: its dependency sentiments is a new array
\* in every render, so the cleanup clears the interval and, in the processing
\* stage, setInterval arms a new one, whose 2 s start over.
ShuffleEffectRerun == shuffleElapsed' = 0

\* One unit of time passes.
TimePasses ==
    /\ home = "current"
    /\ shuffleElapsed' = IF shuffleInterval THEN Later(shuffleElapsed, ShufflePeriod)
                                            ELSE shuffleElapsed
    /\ noteElapsed' = IF noteInterval THEN Later(noteElapsed, NotePeriod) ELSE noteElapsed
    /\ sinceShuffle' = IF stage = "processing" THEN Later(sinceShuffle, ShufflePeriod)
                                               ELSE sinceShuffle
    /\ noteAges' = [id \in 1..Len(noteAges) |->
                      IF id \in noteTimeouts THEN Later(noteAges[id], NoteLife)
                                             ELSE noteAges[id]]
    /\ clockVars' /= clockVars
    /\ UNCHANGED <<stage, wavesVars>>

\* setStage: the instance mounted for the new stage runs both effects.
ClockedSetStage(next) ==
    /\ PageSetStage(next)
    /\ ShuffleEffectRerun
    /\ noteElapsed' = 0
    /\ sinceShuffle' = 0
    /\ UNCHANGED noteAges

\* The shuffle callback, once its 2 s have passed; its setShuffledSentiments
\* renders.
ClockedShuffleTick ==
    /\ ShuffleTick
    /\ shuffleElapsed >= ShufflePeriod
    /\ ShuffleEffectRerun
    /\ sinceShuffle' = 0
    /\ UNCHANGED <<noteElapsed, noteAges>>

\* The note callback, once its 500 ms have passed; its setMusicNotes renders.
ClockedNoteSpawnTick ==
    /\ NoteSpawnTick
    /\ noteElapsed >= NotePeriod
    /\ noteElapsed' = 0
    /\ noteAges' = Append(noteAges, 0)
    /\ ShuffleEffectRerun
    /\ UNCHANGED sinceShuffle

\* The removal timeout of a note, once its 3 s have passed; its setMusicNotes
\* renders the mounted instance when the note is one of its notes.
ClockedNoteTimeout(id) ==
    /\ NoteTimeout(id)
    /\ noteAges[id] >= NoteLife
    /\ IF id \in musicNotes THEN ShuffleEffectRerun ELSE UNCHANGED shuffleElapsed
    /\ UNCHANGED <<noteElapsed, sinceShuffle, noteAges>>

\* The end of a note's 3 s transition.
ClockedNoteTransitionEnd(id) ==
    /\ NoteTransitionEnd(id)
    /\ noteAges[id] >= NoteLife
    /\ ShuffleEffectRerun
    /\ UNCHANGED <<noteElapsed, sinceShuffle, noteAges>>

clockFrame == <<recordedAudioUrl, uploadedAudioUrl, songName, artistName,
                serverSegments, animatedSegments, predictedGenre, error,
                showRecordModal, inputFiles, netVars, consoleErrors, modalVars,
                afterReset, home, simVars, monitorVars, pathVars, genreVars>>

ClockNext ==
    \/ \E next \in Stages : ClockedSetStage(next) /\ UNCHANGED clockFrame
    \/ TimePasses /\ UNCHANGED clockFrame
    \/ ClockedShuffleTick /\ UNCHANGED clockFrame
    \/ ClockedNoteSpawnTick /\ UNCHANGED clockFrame
    \/ \E id \in NoteIds : ClockedNoteTimeout(id) /\ UNCHANGED clockFrame
    \/ \E id \in NoteIds : ClockedNoteTransitionEnd(id) /\ UNCHANGED clockFrame

ClockSpec == Init /\ [][ClockNext]_vars

----------------------------------------------------------------------------
\* The simulated Home: the revisions of the page whose processing is simulated
\* by timers (unnamed/part_003; the same loops are in unnamed/part_002 and in
\* the page kept in components/MusicNote.tsx), with the AudioRecorder panel of
\* part_003.  Its shuffle and note effects are those of SpeakerWithWaves.

TotalSegments == 2  \* totalSegments, 12 in the code

\* Math.random() on a grid: randoms stands for [0,1), speeds for the positive
\* steps Math.random() * 0.005 + 0.002.
CoarseDice == [randoms |-> {0, 1, 2}, speeds |-> {1, 2}]

\* The dice of one frame of the simulated Home: every draw of the frame comes
\* out alike.
FrameDice ==
    {[randoms |-> {t}, speeds |-> {sp}] : t \in CoarseDice.randoms, sp \in CoarseDice.speeds}

\* Mutant of StepValue: the step is not clamped at the target.
StepValueNoClamp(s) ==
    IF s.value < s.target THEN s.value + s.speed
    ELSE IF s.value > s.target THEN s.value - s.speed
    ELSE s.value

\* The new value of updateSentiment / update: a step of speed toward the
\* target, set to the target when it reaches or passes it.
StepValue(s) ==
    IF s.value < s.target
      THEN IF s.value + s.speed >= s.target THEN s.target ELSE s.value + s.speed
    ELSE IF s.value > s.target
      THEN IF s.value - s.speed <= s.target THEN s.target ELSE s.value - s.speed
    ELSE s.value

\* Mutant of UpdateSentiment: a target and speed are drawn on every frame.
UpdateSentimentRedraw(s, dice) ==
    {[value |-> StepValue(s), target |-> t, speed |-> sp] :
        t \in dice.randoms, sp \in dice.speeds}

\* updateSentiment / update: what one frame can make of one sentiment.  When
\* the new value is the target, a new target and speed are drawn.
UpdateSentiment(s, dice) ==
    LET newValue == StepValue(s) IN
    IF newValue = s.target
      THEN {[value |-> newValue, target |-> t, speed |-> sp] :
              t \in dice.randoms, sp \in dice.speeds}
      ELSE {[s EXCEPT !.value = newValue]}

\* Mutant of AnimateSegment: the locked flag is not looked at.
AnimateSegmentAnyway(seg, dice) ==
    {[seg EXCEPT !.valence = v, !.arousal = a, !.dominance = d] :
        v \in UpdateSentiment(seg.valence, dice),
        a \in UpdateSentiment(seg.arousal, dice),
        d \in UpdateSentiment(seg.dominance, dice)}

\* The body of prevSegments.map in animate: a locked segment is returned as it
\* is, an unlocked one has its three sentiments updated.
AnimateSegment(seg, dice) ==
    IF seg.locked
      THEN {seg}
      ELSE {[seg EXCEPT !.valence = v, !.arousal = a, !.dominance = d] :
              v \in UpdateSentiment(seg.valence, dice),
              a \in UpdateSentiment(seg.arousal, dice),
              d \in UpdateSentiment(seg.dominance, dice)}

\* The updater of animate: every list one frame can make of prevSegments.
RECURSIVE Animate(_, _)
Animate(prevSegments, dice) ==
    IF prevSegments = <<>>
      THEN {<<>>}
      ELSE {<<seg>> \o rest : seg \in AnimateSegment(Head(prevSegments), dice),
                              rest \in Animate(Tail(prevSegments), dice)}

\* What locking does to one sentiment.
LockSentiment(s) == [s EXCEPT !.target = s.value, !.speed = 0]

\* The updater of startProcessing's interval, for the index it reads.
LockSegment(prev, idx) ==
    [i \in 1..Len(prev) |->
        IF i - 1 = idx
          THEN [prev[i] EXCEPT !.locked = TRUE,
                               !.valence = LockSentiment(prev[i].valence),
                               !.arousal = LockSentiment(prev[i].arousal),
                               !.dominance = LockSentiment(prev[i].dominance)]
          ELSE prev[i]]

\* The sentiments a useState initializer can draw.
DrawnSentiments(dice) ==
    {[value |-> v, target |-> t, speed |-> sp] :
        v \in dice.randoms, t \in dice.randoms, sp \in dice.speeds}

\* The initial segments, all drawn alike: segment i at i * 5 seconds, unlocked.
InitialSegments(dice) ==
    {[i \in 1..TotalSegments |->
        [timeSec |-> (i - 1) * 5, valence |-> s, arousal |-> s, dominance |-> s,
         locked |-> FALSE]] : s \in DrawnSentiments(dice)}

\* The three genres shown, by name, in the order of their random scores.
GenreCandidates == {"Pop", "Rock", "EDM"}
GenrePredictions ==
    {g \in GenreCandidates \X GenreCandidates \X GenreCandidates :
        g[1] /= g[2] /\ g[1] /= g[3] /\ g[2] /= g[3]}

MicLogMsg == "Error accessing microphone:"

\* The animation effect of Home, with dependency stage: when stage changes,
\* the cleanup cancels the frame held in rafId, and the effect requests a
\* frame if the new stage is processing.
CancelAnimationFrame(pending) == FALSE
AnimationEffect(pending, old, new) ==
    IF old = new THEN pending
    ELSE IF new = "processing" THEN TRUE
    ELSE CancelAnimationFrame(pending)

\* AudioRecorder has no effect cleanup: when it unmounts, its streams and
\* recorders are left as they are, and no later click reaches them.
Detach(ss) == [s \in 1..Len(ss) |-> [ss[s] EXCEPT !.attached = FALSE]]

\* The AudioRecorder panel is rendered in the idle stage while showRecorder.
RecorderMounted == home = "simulated" /\ stage = "idle" /\ showRecorder

\* The commit of a render in which st and shown are the stage and showRecorder:
\* the animation effect, and the AudioRecorder that unmounts.
SimCommit(st, shown) ==
    /\ stage' = st
    /\ showRecorder' = shown
    /\ rafPending' = AnimationEffect(rafPending, stage, st)
    /\ rafId' = IF st /= stage /\ st = "processing" THEN 1 ELSE rafId
    /\ IF RecorderMounted /\ ~(st = "idle" /\ shown)
         THEN /\ mediaStream' = 0
              /\ mediaRecorder' = 0
         ELSE UNCHANGED <<mediaStream, mediaRecorder>>

\* The sessions after that commit.
SimCommitSessions(ss, st, shown) ==
    IF RecorderMounted /\ ~(st = "idle" /\ shown) THEN Detach(ss) ELSE ss

\* The audio inputs used up in the simulated Home: the file accepted and the
\* recordings started.  MaxRuns caps it.
SimInputsUsed == (IF uploadedAudioUrl /= NullUrl THEN 1 ELSE 0) + Len(sessions)

\* handleFileUpload of the simulated Home.
SimHandleFileUpload(files) ==
    /\ home = "simulated"
    /\ stage = "idle"
    /\ files /= inputFiles
    /\ IF Len(files) = 0
         THEN /\ inputFiles' = files
              /\ UNCHANGED <<stage, error, uploadedAudioUrl, uploadTimeouts, sessions,
                             rafId, rafPending, showRecorder, mediaStream, mediaRecorder>>
         ELSE IF ~StartsWith(files[1].type, AudioPrefix)
           THEN /\ inputFiles' = files
                /\ error' = InvalidFileMsg
                /\ UNCHANGED <<stage, uploadedAudioUrl, uploadTimeouts, sessions,
                               rafId, rafPending, showRecorder, mediaStream, mediaRecorder>>
           ELSE /\ SimInputsUsed < MaxRuns
                /\ error' = NULL
                /\ uploadedAudioUrl' = ObjectUrl(files[1].name)
                /\ uploadTimeouts' = uploadTimeouts + 1
                /\ SimCommit("uploading", showRecorder)
                /\ sessions' = SimCommitSessions(sessions, "uploading", showRecorder)
                /\ inputFiles' = <<>>
    /\ UNCHANGED <<recordedAudioUrl, consoleErrors, segments, genres, lockIntervals>>

\* Click on "Record Audio": the recorder panel is shown or hidden.
ToggleRecorder ==
    /\ home = "simulated"
    /\ stage = "idle"
    /\ SimCommit(stage, ~showRecorder)
    /\ sessions' = SimCommitSessions(sessions, stage, ~showRecorder)
    /\ UNCHANGED <<recordedAudioUrl, uploadedAudioUrl, error, inputFiles, consoleErrors,
                   segments, genres, uploadTimeouts, lockIntervals>>

\* Click on "Start Recording" of AudioRecorder (always rendered): startRecording
\* up to its await of getUserMedia.
AudioRecorderStart ==
    /\ RecorderMounted
    /\ SimInputsUsed < MaxRuns
    /\ sessions' = Append(sessions, NewSession)
    /\ UNCHANGED <<stage, recordedAudioUrl, uploadedAudioUrl, error, inputFiles,
                   consoleErrors, simVars>>

\* getUserMedia resolves for session s: the rest of startRecording.
AudioRecorderGranted(s) ==
    /\ home = "simulated"
    /\ s \in 1..Len(sessions)
    /\ sessions[s].acq = "pending"
    /\ sessions' = [sessions EXCEPT ![s].acq = "granted", ![s].live = TRUE,
                                    ![s].rec = "recording"]
    /\ IF sessions[s].attached
         THEN mediaStream' = s /\ mediaRecorder' = s
         ELSE UNCHANGED <<mediaStream, mediaRecorder>>
    /\ UNCHANGED <<stage, recordedAudioUrl, uploadedAudioUrl, error, inputFiles,
                   consoleErrors, segments, genres, rafId, rafPending,
                   uploadTimeouts, lockIntervals, showRecorder>>

\* getUserMedia rejects for session s: the catch block.
AudioRecorderDenied(s) ==
    /\ home = "simulated"
    /\ s \in 1..Len(sessions)
    /\ sessions[s].acq = "pending"
    /\ sessions' = [sessions EXCEPT ![s].acq = "denied"]
    /\ consoleErrors' = consoleErrors \cup {MicLogMsg}
    /\ UNCHANGED <<stage, recordedAudioUrl, uploadedAudioUrl, error, inputFiles, simVars>>

\* Click on "Stop Recording" of AudioRecorder (always rendered): stopRecording.
AudioRecorderStop ==
    /\ RecorderMounted
    /\ sessions' = StopTracks(RecorderStop(sessions, mediaRecorder), mediaStream)
    /\ sessions' /= sessions
    /\ UNCHANGED <<stage, recordedAudioUrl, uploadedAudioUrl, error, inputFiles,
                   consoleErrors, simVars>>

\* The stop event of session s's recorder: onstop, which calls
\* handleRecordingComplete(url).
AudioRecorderOnStop(s) ==
    /\ home = "simulated"
    /\ s \in 1..Len(sessions)
    /\ sessions[s].stopPending
    /\ recordedAudioUrl' = ObjectUrl(s)
    /\ uploadTimeouts' = uploadTimeouts + 1
    /\ SimCommit("uploading", FALSE)
    /\ sessions' = SimCommitSessions([sessions EXCEPT ![s].stopPending = FALSE],
                                     "uploading", FALSE)
    /\ inputFiles' = <<>>
    /\ UNCHANGED <<uploadedAudioUrl, error, consoleErrors, segments, genres,
                   lockIntervals>>

\* The 2 s timeout of an upload: setStage("processing") and startProcessing(),
\* which arms the 5 s interval with currentIdx = 0.
SimUploadTimeout ==
    /\ home = "simulated"
    /\ uploadTimeouts > 0
    /\ uploadTimeouts' = uploadTimeouts - 1
    /\ lockIntervals' = Append(lockIntervals, [currentIdx |-> 0, phase |-> "interval"])
    /\ SimCommit("processing", showRecorder)
    /\ UNCHANGED <<recordedAudioUrl, uploadedAudioUrl, error, inputFiles, sessions,
                   consoleErrors, segments, genres>>

\* A tick of the 5 s interval of startProcessing call k.  The updater locks the
\* segment at the index it reads from currentIdx, which React may run before or
\* after currentIdx++.  After the last tick the interval is cleared and the 1 s
\* timeout is set.
LockTick(k, readIdx) ==
    /\ home = "simulated"
    /\ k \in 1..Len(lockIntervals)
    /\ lockIntervals[k].phase = "interval"
    /\ readIdx \in UpdaterIndices(lockIntervals[k].currentIdx)
    /\ segments' = LockSegment(segments, readIdx)
    /\ lockIntervals' =
         [lockIntervals EXCEPT ![k].currentIdx = @ + 1,
                               ![k].phase = IF lockIntervals[k].currentIdx + 1 = TotalSegments
                                              THEN "timeout" ELSE "interval"]
    /\ UNCHANGED <<stage, recordedAudioUrl, uploadedAudioUrl, error, inputFiles,
                   sessions, consoleErrors, genres, rafId, rafPending, uploadTimeouts,
                   showRecorder, mediaStream, mediaRecorder>>

\* The callback of the 1 s timeout of startProcessing call k, given the genres
\* it has computed: setGenres(randomGenres); setStage("finished").
SetGenresAndFinish(k, randomGenres) ==
    /\ home = "simulated"
    /\ k \in 1..Len(lockIntervals)
    /\ lockIntervals[k].phase = "timeout"
    /\ lockIntervals' = [lockIntervals EXCEPT ![k].phase = "done"]
    /\ genres' = randomGenres
    /\ SimCommit("finished", showRecorder)
    /\ UNCHANGED <<recordedAudioUrl, uploadedAudioUrl, error, inputFiles, sessions,
                   consoleErrors, segments, uploadTimeouts>>

\* Mutant of FinishTimeout: the genres are set and the stage is left alone.
FinishTimeoutGenresOnly(k) ==
    /\ home = "simulated"
    /\ k \in 1..Len(lockIntervals)
    /\ lockIntervals[k].phase = "timeout"
    /\ lockIntervals' = [lockIntervals EXCEPT ![k].phase = "done"]
    /\ genres' \in GenrePredictions
    /\ SimCommit(stage, showRecorder)
    /\ UNCHANGED <<recordedAudioUrl, uploadedAudioUrl, error, inputFiles, sessions,
                   consoleErrors, segments, uploadTimeouts>>

\* The 1 s timeout of startProcessing call k: the genres and stage finished.
FinishTimeout(k) == \E randomGenres \in GenrePredictions : SetGenresAndFinish(k, randomGenres)

\* A frame of the sentiment loop: animate, which requests the next frame.
AnimateFrame(dice) ==
    /\ home = "simulated"
    /\ rafPending
    /\ segments' \in Animate(segments, dice)
    /\ rafId' = 1
    /\ UNCHANGED <<stage, recordedAudioUrl, uploadedAudioUrl, error, inputFiles,
                   sessions, consoleErrors, genres, rafPending, uploadTimeouts,
                   lockIntervals, showRecorder, mediaStream, mediaRecorder>>

\* What the simulated Home never touches.
simFrame == <<songName, artistName, serverSegments, animatedSegments, predictedGenre,
              showRecordModal, netVars, isRecording, mediaRecorderRef, mediaStreamRef,
              afterReset, home, wavesVars, monitorVars, clockVars, pathVars,
              genreVars>>

\* The simulated Home after mount, with an empty environment.
SimInit ==
    /\ home = "simulated"
    /\ stage = "idle"
    /\ recordedAudioUrl = NullUrl
    /\ uploadedAudioUrl = NullUrl
    /\ error = NULL
    /\ inputFiles = <<>>
    /\ sessions = <<>>
    /\ consoleErrors = {}
    /\ segments \in InitialSegments(CoarseDice)
    /\ genres = <<>>
    /\ rafId = 0
    /\ rafPending = FALSE
    /\ uploadTimeouts = 0
    /\ lockIntervals = <<>>
    /\ showRecorder = FALSE
    /\ mediaStream = 0
    /\ mediaRecorder = 0
    /\ songName = "Unknown"
    /\ artistName = "Unknown"
    /\ serverSegments = <<>>
    /\ animatedSegments = <<>>
    /\ predictedGenre = NULL
    /\ showRecordModal = FALSE
    /\ runs = <<>>
    /\ requests = <<>>
    /\ isRecording = FALSE
    /\ mediaRecorderRef = 0
    /\ mediaStreamRef = 0
    /\ afterReset = FALSE
    /\ shuffleInterval = FALSE
    /\ noteInterval = FALSE
    /\ musicNotes = {}
    /\ shuffledSentiments = <<[sentiment |-> "valence", opacity |-> 60],
                              [sentiment |-> "arousal", opacity |-> 50],
                              [sentiment |-> "dominance", opacity |-> 40]>>
    /\ noteTimeouts = {}
    /\ noteSeq = 0
    /\ monitors = <<>>
    /\ animationFrameRefs = <<>>
    /\ modalKey = 0
    /\ shuffleElapsed = 0
    /\ noteElapsed = 0
    /\ sinceShuffle = 0
    /\ noteAges = <<>>
    /\ points = <<>>
    /\ path = <<>>
    /\ scoredGenres = <<>>

\* One startProcessing call per accepted file and per completed recording.
LockIds == 1..MaxRuns

SimNext ==
    \/ \E files \in FileLists : SimHandleFileUpload(files) /\ UNCHANGED simFrame
    \/ ToggleRecorder /\ UNCHANGED simFrame
    \/ AudioRecorderStart /\ UNCHANGED simFrame
    \/ \E s \in RunIds : AudioRecorderGranted(s) /\ UNCHANGED simFrame
    \/ \E s \in RunIds : AudioRecorderDenied(s) /\ UNCHANGED simFrame
    \/ AudioRecorderStop /\ UNCHANGED simFrame
    \/ \E s \in RunIds : AudioRecorderOnStop(s) /\ UNCHANGED simFrame
    \/ SimUploadTimeout /\ UNCHANGED simFrame
    \/ \E k \in LockIds : \E i \in 0..TotalSegments : LockTick(k, i) /\ UNCHANGED simFrame
    \/ \E k \in LockIds : FinishTimeout(k) /\ UNCHANGED simFrame
    \/ \E dice \in FrameDice : AnimateFrame(dice) /\ UNCHANGED simFrame

SimSpec == SimInit /\ [][SimNext]_vars

----------------------------------------------------------------------------
\* The frame update on its own: one segment of the simulated Home in the
\* processing stage, drawn from a finer grid, and the frames of the loop.

Unit == 5           \* the grid point that stands for 1.0

\* Math.random() lands on the even grid points below Unit, so that a value
\* between two of them is one a frame has made.
FineDice == [randoms |-> {r \in 0..(Unit - 1) : r % 2 = 0}, speeds |-> {1, 3}]

\* A segment as startProcessing leaves it once locked.
LockedSegments(dice) ==
    {[timeSec |-> 0, valence |-> LockSentiment(v), arousal |-> LockSentiment(a),
      dominance |-> LockSentiment(d), locked |-> TRUE] :
        v \in DrawnSentiments(dice), a \in DrawnSentiments(dice),
        d \in DrawnSentiments(dice)}

\* A segment as the useState initializer draws it.
UnlockedSegments(dice) ==
    {[timeSec |-> 0, valence |-> v, arousal |-> a, dominance |-> d, locked |-> FALSE] :
        v \in DrawnSentiments(dice), a \in DrawnSentiments(dice),
        d \in DrawnSentiments(dice)}

\* The simulated Home in the processing stage of an uploaded file, the frame
\* loop running, seen through one of its segments.
FrameInit ==
    /\ home = "simulated"
    /\ stage = "processing"
    /\ recordedAudioUrl = NullUrl
    /\ uploadedAudioUrl = ObjectUrl("song.mp3")
    /\ error = NULL
    /\ inputFiles = <<>>
    /\ sessions = <<>>
    /\ consoleErrors = {}
    /\ \E seg \in UnlockedSegments(FineDice) \cup LockedSegments(FineDice) :
         segments = <<seg>>
    /\ genres = <<>>
    /\ rafId = 1
    /\ rafPending = TRUE
    /\ uploadTimeouts = 0
    /\ lockIntervals = <<[currentIdx |-> 0, phase |-> "interval"]>>
    /\ showRecorder = FALSE
    /\ mediaStream = 0
    /\ mediaRecorder = 0
    /\ songName = "Unknown"
    /\ artistName = "Unknown"
    /\ serverSegments = <<>>
    /\ animatedSegments = <<>>
    /\ predictedGenre = NULL
    /\ showRecordModal = FALSE
    /\ runs = <<>>
    /\ requests = <<>>
    /\ isRecording = FALSE
    /\ mediaRecorderRef = 0
    /\ mediaStreamRef = 0
    /\ afterReset = FALSE
    /\ shuffleInterval = FALSE
    /\ noteInterval = FALSE
    /\ musicNotes = {}
    /\ shuffledSentiments = <<[sentiment |-> "valence", opacity |-> 60],
                              [sentiment |-> "arousal", opacity |-> 50],
                              [sentiment |-> "dominance", opacity |-> 40]>>
    /\ noteTimeouts = {}
    /\ noteSeq = 0
    /\ monitors = <<>>
    /\ animationFrameRefs = <<>>
    /\ modalKey = 0
    /\ shuffleElapsed = 0
    /\ noteElapsed = 0
    /\ sinceShuffle = 0
    /\ noteAges = <<>>
    /\ points = <<>>
    /\ path = <<>>
    /\ scoredGenres = <<>>

FrameNext == AnimateFrame(FineDice) /\ UNCHANGED simFrame

FrameSpec == FrameInit /\ [][FrameNext]_vars

----------------------------------------------------------------------------
\* The genre prediction of the finish timeout on its own: the candidates with
\* their random scores, shuffled, sorted by score and cut to the first three.

MaxScore == 2       \* Math.random() is one of 0..MaxScore
ShownGenres == 3    \* .slice(0, 3)

GenreNames == <<"Pop", "Rock", "EDM", "Classical">>

\* The array literal: every candidate with a score of its own.
ScoredCandidates ==
    {[i \in 1..Len(GenreNames) |-> [name |-> GenreNames[i], score |-> sc[i]]] :
        sc \in [1..Len(GenreNames) -> 0..MaxScore]}

\* Mutant of SortByScore: the array is left in the order it came in.
Unsorted(array) == array

\* e put into a list sorted by descending score, behind the elements that do
\* not score less: what a stable sort does with the next element.
InsertByScore(sorted, e) ==
    LET ahead == Cardinality({k \in 1..Len(sorted) : sorted[k].score >= e.score})
    IN SubSeq(sorted, 1, ahead) \o <<e>> \o SubSeq(sorted, ahead + 1, Len(sorted))

RECURSIVE SortedPrefix(_, _)
SortedPrefix(array, n) ==
    IF n = 0 THEN <<>> ELSE InsertByScore(SortedPrefix(array, n - 1), array[n])

\* .sort((a, b) => b.score - a.score): descending by score, stable.
SortByScore(array) == SortedPrefix(array, Len(array))

\* .slice(0, end)
SliceFromStart(array, end) ==
    SubSeq(array, 1, IF end < Len(array) THEN end ELSE Len(array))

\* shuffleArray([...]).sort(...).slice(0, 3): what randomGenres can be.
RandomGenres(scored) ==
    {SliceFromStart(SortByScore(shuffled), ShownGenres) : shuffled \in ShuffleArray(scored)}

\* The 1 s timeout of startProcessing call k, with the scores it draws.
ScoredFinishTimeout(k) ==
    \E scored \in ScoredCandidates : \E randomGenres \in RandomGenres(scored) :
        /\ scoredGenres' = scored
        /\ SetGenresAndFinish(k, randomGenres)

\* The simulated Home after the last tick of startProcessing, every segment
\* locked and the 1 s timeout armed.
GenreInit ==
    /\ home = "simulated"
    /\ stage = "processing"
    /\ recordedAudioUrl = NullUrl
    /\ uploadedAudioUrl = ObjectUrl("song.mp3")
    /\ error = NULL
    /\ inputFiles = <<>>
    /\ sessions = <<>>
    /\ consoleErrors = {}
    /\ \E init \in InitialSegments(CoarseDice) :
         segments = [i \in 1..TotalSegments |-> LockSegment(init, i - 1)[i]]
    /\ genres = <<>>
    /\ rafId = 1
    /\ rafPending = TRUE
    /\ uploadTimeouts = 0
    /\ lockIntervals = <<[currentIdx |-> TotalSegments, phase |-> "timeout"]>>
    /\ showRecorder = FALSE
    /\ mediaStream = 0
    /\ mediaRecorder = 0
    /\ songName = "Unknown"
    /\ artistName = "Unknown"
    /\ serverSegments = <<>>
    /\ animatedSegments = <<>>
    /\ predictedGenre = NULL
    /\ showRecordModal = FALSE
    /\ runs = <<>>
    /\ requests = <<>>
    /\ isRecording = FALSE
    /\ mediaRecorderRef = 0
    /\ mediaStreamRef = 0
    /\ afterReset = FALSE
    /\ shuffleInterval = FALSE
    /\ noteInterval = FALSE
    /\ musicNotes = {}
    /\ shuffledSentiments = <<[sentiment |-> "valence", opacity |-> 60],
                              [sentiment |-> "arousal", opacity |-> 50],
                              [sentiment |-> "dominance", opacity |-> 40]>>
    /\ noteTimeouts = {}
    /\ noteSeq = 0
    /\ monitors = <<>>
    /\ animationFrameRefs = <<>>
    /\ modalKey = 0
    /\ shuffleElapsed = 0
    /\ noteElapsed = 0
    /\ sinceShuffle = 0
    /\ noteAges = <<>>
    /\ points = <<>>
    /\ path = <<>>
    /\ scoredGenres = <<>>

genreFrame == <<songName, artistName, serverSegments, animatedSegments, predictedGenre,
                showRecordModal, netVars, isRecording, mediaRecorderRef, mediaStreamRef,
                afterReset, home, wavesVars, monitorVars, clockVars, pathVars>>

GenreNext == \E k \in LockIds : ScoredFinishTimeout(k) /\ UNCHANGED genreFrame

GenreSpec == GenreInit /\ [][GenreNext]_vars

----------------------------------------------------------------------------
\* The timers and animation loops of the processing stage, in the current page
\* (SpeakerWithWaves) and in the simulated Home.

TimerInit == Init \/ SimInit

TimerNext == WavesNext \/ SimNext

TimerSpec == TimerInit /\ [][TimerNext]_vars

----------------------------------------------------------------------------
\* generateSmoothPath (utils/sentimentHelpers.ts), called by the circular chart
\* of SpeakerWithWaves with the points of one sentiment.  The path string is
\* modelled as the list of its commands, and the control points, which the code
\* computes with the factor 0.2, are kept in fifths.

MaxCoord == 1       \* coordinates are 0..MaxCoord
MaxPoints == 5      \* points handed to one call

Coords == 0..MaxCoord
Points == [x : Coords, y : Coords]

RECURSIVE PointListsOf(_)
PointListsOf(n) ==
    IF n = 0 THEN {<<>>}
    ELSE {Append(pts, p) : pts \in PointListsOf(n - 1), p \in Points}

PointLists == UNION {PointListsOf(n) : n \in 0..MaxPoints}

\* points[i] for a 0-based index i.
PointAt(pts, i) == pts[i + 1]

\* Mutant of PrevIndex: the first segment takes points[0] as its predecessor.
PrevIndexNoWrap(i, n) == IF i = 0 THEN 0 ELSE i - 1

\* i === 0 ? points.length - 1 : i - 1
PrevIndex(i, n) == IF i = 0 THEN n - 1 ELSE i - 1

\* ` C ${cp1x} ${cp1y}, ${cp2x} ${cp2y}, ${p2.x} ${p2.y}`
Cubic(p0, p1, p2, p3) ==
    [cmd |-> "C",
     cp1x |-> 5 * p1.x + (p2.x - p0.x),
     cp1y |-> 5 * p1.y + (p2.y - p0.y),
     cp2x |-> 5 * p2.x - (p3.x - p1.x),
     cp2y |-> 5 * p2.y - (p3.y - p1.y),
     x |-> p2.x,
     y |-> p2.y]

\* `M ${points[0].x} ${points[0].y}` and " Z", in the shape of a command.
MoveTo(p) == [cmd |-> "M", cp1x |-> 0, cp1y |-> 0, cp2x |-> 0, cp2y |-> 0,
              x |-> p.x, y |-> p.y]
ClosePath == [cmd |-> "Z", cp1x |-> 0, cp1y |-> 0, cp2x |-> 0, cp2y |-> 0,
              x |-> 0, y |-> 0]

\* The body of the for loop for index i.
PathSegment(pts, i) ==
    LET n == Len(pts) IN
    Cubic(PointAt(pts, PrevIndex(i, n)), PointAt(pts, i),
          PointAt(pts, (i + 1) % n), PointAt(pts, (i + 2) % n))

GenerateSmoothPath(pts) ==
    IF Len(pts) < 2 THEN <<>>
    ELSE <<MoveTo(PointAt(pts, 0))>>
           \o [k \in 1..Len(pts) |-> PathSegment(pts, k - 1)]
           \o <<ClosePath>>

\* A render of the chart with new points.
RenderChart(pts) ==
    /\ points' = pts
    /\ path' = GenerateSmoothPath(pts)

pathFrame == <<pageVars, netVars, consoleErrors, modalVars, afterReset, home,
               wavesVars, simVars, monitorVars, clockVars, genreVars>>

PathNext == \E pts \in PointLists : RenderChart(pts) /\ UNCHANGED pathFrame

PathSpec == Init /\ [][PathNext]_vars

----------------------------------------------------------------------------
\* Both homes without resetApp, their timers scheduled fairly: a timeout that
\* is armed fires, and an interval that is armed keeps ticking until cleared.

PageNoResetNext ==
    \/ \E files \in FileLists : HandleFileUpload(files) /\ home = "current" /\ UNCHANGED viewVars
    \/ OnRecordClick /\ home = "current" /\ UNCHANGED viewVars
    \/ \E r \in RunIds : \E response \in Responses(r) :
          ProcessAudioSettled(r, response) /\ home = "current" /\ UNCHANGED viewVars
    \/ \E r \in RunIds : UploadTimeout(r) /\ home = "current" /\ UNCHANGED viewVars
    \/ \E r \in RunIds : \E i \in 0..(MaxSegments + 1) :
          AnimateTick(r, i) /\ home = "current" /\ UNCHANGED viewVars
    \/ StartRecording /\ home = "current" /\ UNCHANGED viewVars
    \/ \E s \in RunIds : GetUserMediaResolved(s) /\ home = "current" /\ UNCHANGED viewVars
    \/ \E s \in RunIds : GetUserMediaRejected(s) /\ home = "current" /\ UNCHANGED viewVars
    \/ StopRecording /\ home = "current" /\ UNCHANGED viewVars
    \/ CloseModal /\ home = "current" /\ UNCHANGED viewVars
    \/ \E s \in RunIds : RecorderOnStop(s) /\ home = "current" /\ UNCHANGED viewVars
    \/ \E r \in RunIds : BlobFetched(r) /\ home = "current" /\ UNCHANGED viewVars

LiveNext == PageNoResetNext \/ SimNext

TimerFairness ==
    /\ \A r \in RunIds : WF_vars(UploadTimeout(r) /\ UNCHANGED viewVars)
    /\ \A r \in RunIds :
         WF_vars(\E i \in 0..(MaxSegments + 1) : AnimateTick(r, i) /\ UNCHANGED viewVars)
    /\ WF_vars(SimUploadTimeout /\ UNCHANGED simFrame)
    /\ \A k \in LockIds :
         WF_vars(\E i \in 0..TotalSegments : LockTick(k, i) /\ UNCHANGED simFrame)
    /\ \A k \in LockIds : WF_vars(FinishTimeout(k) /\ UNCHANGED simFrame)

LiveSpec == TimerInit /\ [][LiveNext]_vars /\ TimerFairness

----------------------------------------------------------------------------
\* Properties

\* The runs of the page in a given phase.
RunsIn(phases) == {r \in 1..Len(runs) : runs[r].phase \in phases}

\* A MIME type that does not start with "audio/", spelled out character by
\* character.
NotAudioMime(t) == Len(t) < 6 \/ \E i \in 1..6 : t[i] /= AudioPrefix[i]

\* This step is the change event of the file input with a newly selected file.
FileSelected == stage = "idle" /\ inputFiles' /= inputFiles /\ Len(inputFiles') = 1

\* C1: every change of stage that resetApp does not make is one of
\* idle->uploading, uploading->processing, processing->finished.
C1_StageMovesForwardOneStep ==
    [][(stage' /= stage /\ ~ResetApp) =>
          <<stage, stage'>> \in { <<"idle", "uploading">>,
                                  <<"uploading", "processing">>,
                                  <<"processing", "finished">> }]_vars

\* C2: resetApp leaves stage idle and the URLs, both segment lists, the genre
\* and the error at their initial values.
C2_ResetClearsTransientState ==
    [][ResetApp =>
          /\ stage' = "idle"
          /\ recordedAudioUrl' = NullUrl
          /\ uploadedAudioUrl' = NullUrl
          /\ serverSegments' = <<>>
          /\ animatedSegments' = <<>>
          /\ predictedGenre' = NULL
          /\ error' = NULL]_vars

\* C3: selecting a file whose type does not start with "audio/" sets the
\* invalid-file message and changes nothing else of the page: stage, song and
\* artist name, URLs, segments and genre stay, and no request is sent.
C3_NonAudioFileRejected ==
    [][(FileSelected /\ NotAudioMime(inputFiles'[1].type)) =>
          /\ error' = InvalidFileMsg
          /\ stage' = stage
          /\ requests' = requests
          /\ runs' = runs
          /\ songName' = songName
          /\ artistName' = artistName
          /\ recordedAudioUrl' = recordedAudioUrl
          /\ uploadedAudioUrl' = uploadedAudioUrl
          /\ serverSegments' = serverSegments
          /\ animatedSegments' = animatedSegments
          /\ predictedGenre' = predictedGenre]_vars

\* C3 witness: a non-audio file has been selected and rejected while an
\* earlier accepted upload is still in flight.
C3_Witness ==
    /\ stage = "idle"
    /\ Len(inputFiles) = 1
    /\ NotAudioMime(inputFiles[1].type)
    /\ error = InvalidFileMsg
    /\ songName = "song.mp3"
    /\ Len(requests) = 1

\* C4: no live microphone track exists unless the modal is mounted and
\* recording.
C4_NoLiveTrackOnceStoppedOrUnmounted ==
    \A s \in 1..Len(sessions) :
        sessions[s].live => (showRecordModal /\ isRecording)

\* What the step in which analyzeAudio settles for run r must do, by the
\* status of the response.
C5_SettledStep(r) ==
    IF runs'[r].status = 200
      THEN /\ runs'[r].phase = "timeout"
           /\ serverSegments' = runs'[r].segments
           /\ predictedGenre' = runs'[r].genre
           /\ predictedGenre' = GenreOf(r)
           /\ \A k \in 1..Len(serverSegments') : serverSegments'[k] = Seg(r, k)
      ELSE /\ runs'[r].phase = "failed"
           /\ error' = ProcessErrorMsg
           /\ ProcessLogMsg \in consoleErrors'
           /\ serverSegments' = serverSegments
           /\ predictedGenre' = predictedGenre
           /\ animatedSegments' = animatedSegments
           /\ stage' = stage

\* C5: when analyzeAudio settles for a run, a 200 response hands its body to
\* the page and arms the upload timeout; anything else sets the try-again
\* message, leaves stage, serverSegments, predictedGenre and animatedSegments
\* as they were and arms no timer, then or later.
C5_NonOkResponseIsCaught ==
    [][\A r \in 1..Len(runs) :
          /\ (runs[r].phase = "http" /\ runs'[r].phase /= "http") => C5_SettledStep(r)
          /\ runs[r].phase = "failed" => runs'[r] = runs[r]]_vars

\* C5 witness: a run has failed on a resolved response whose status is not 200,
\* after an earlier run had delivered its segments.
C5_Witness ==
    /\ \E r \in 1..Len(runs) : runs[r].phase = "failed" /\ runs[r].status = 204
    /\ error = ProcessErrorMsg
    /\ Len(serverSegments) = MaxSegments
    /\ predictedGenre /= NULL

\* C6: when getUserMedia rejects, the failure is logged, the page's error
\* becomes non-null and no recording state is entered.
C6_MicDenialSurfaced ==
    [][\A s \in 1..Len(sessions) :
          (sessions[s].acq = "pending" /\ sessions'[s].acq = "denied") =>
              /\ RecordLogMsg \in consoleErrors'
              /\ error' /= NULL
              /\ isRecording' = isRecording
              /\ sessions'[s].rec = "none"]_vars

\* The POSTs sent so far that carry exactly this form.
PostsOf(form) == {i \in 1..Len(requests) : requests[i] = form}
\* The processAudio calls made so far with this blob.
CallsWith(blob) == {r \in RunsIn({"http", "failed", "timeout", "interval", "done"}) :
                      runs[r].blob = blob}
\* The recordings that have completed: onstop has run.
Completed == {s \in 1..Len(sessions) :
                sessions[s].rec = "inactive" /\ ~sessions[s].stopPending}

\* Every request is one `audio` field; each processAudio call has exactly one
\* request with its blob; each completed recording has exactly one run.
C7_PostsMatchInputs ==
    /\ \A i \in 1..Len(requests) :
          Len(requests[i]) = 1 /\ requests[i][1].name = "audio"
    /\ \A r \in 1..Len(runs) :
          Cardinality(PostsOf(<<[name |-> "audio", value |-> runs[r].blob]>>))
              = Cardinality(CallsWith(runs[r].blob))
    /\ Len(requests) = Cardinality(RunsIn({"http", "failed", "timeout", "interval", "done"}))
    /\ \A s \in Completed :
          Cardinality({r \in 1..Len(runs) : runs[r].blob = RecordedBlob(s)}) = 1
    /\ \A r \in 1..Len(runs) :
          runs[r].src = "recording" => \E s \in Completed : runs[r].blob = RecordedBlob(s)

\* An accepted file selection sends one request with the file; a request is
\* sent by that step or by the step that has read a recording's blob, and by
\* no other.
C7_PostStep ==
    /\ (FileSelected /\ ~NotAudioMime(inputFiles'[1].type)) =>
          requests' = Append(requests, <<[name |-> "audio", value |-> FileBlob(inputFiles'[1])]>>)
    /\ requests' /= requests =>
          \/ FileSelected /\ ~NotAudioMime(inputFiles'[1].type)
          \/ \E r \in RunsIn({"fetchBlob"}) :
                /\ runs'[r].phase = "http"
                /\ requests' = Append(requests, <<[name |-> "audio", value |-> runs[r].blob]>>)

\* C7: every accepted upload and every completed recording has exactly one
\* POST, made of the single field `audio` holding its blob, once its blob is
\* read; POSTs are sent by those two events only, so a failure re-sends none.
C7_OnePostPerInputNoRetry == []C7_PostsMatchInputs /\ [][C7_PostStep]_vars

\* C7 witness: an upload and a recording have each been posted once, and both
\* requests have failed.
C7_Witness ==
    /\ Len(runs) = 2
    /\ runs[1].phase = "failed"
    /\ runs[2].phase = "failed"
    /\ runs[1].src /= runs[2].src
    /\ Len(requests) = 2

\* C8: in the finished stage animatedSegments is the list the service returned,
\* with no undefined element, and predictedGenre is the genre it returned.
C8_FinishedShowsReturnedData ==
    stage = "finished" =>
        /\ animatedSegments = serverSegments
        /\ \A k \in 1..Len(animatedSegments) : animatedSegments[k] /= Undefined
        /\ \E r \in 1..Len(runs) :
              /\ runs[r].status = 200
              /\ serverSegments = runs[r].segments
              /\ predictedGenre = runs[r].genre

\* C9: never two reveal intervals running, never two processAudio calls pending.
C9_SinglePipeline ==
    /\ Cardinality(RunsIn({"interval"})) <= 1
    /\ Cardinality(RunsIn({"http"})) <= 1

\* C10: from resetApp until the user next provides input, stage stays idle and
\* the segment lists and the genre stay empty.
C10_ResetIsNotUndone ==
    afterReset =>
        /\ stage = "idle"
        /\ serverSegments = <<>>
        /\ animatedSegments = <<>>
        /\ predictedGenre = NULL

\* C11: whenever stage is not processing, the shuffle interval and the note
\* interval of SpeakerWithWaves are cleared and no frame of the sentiment loop
\* of the simulated Home is pending, so none of their callbacks can run.
C11_ProcessingTimersStopped ==
    stage /= "processing" => ~shuffleInterval /\ ~noteInterval /\ ~rafPending

\* The stage has left processing while a note spawned there still awaits its
\* removal timeout.
C11_Witness ==
    /\ home = "current"
    /\ stage = "finished"
    /\ noteTimeouts /= {}

\* C12: at most one frame of the audio-level monitor is pending, and none is
\* pending while the record modal is unmounted or once every recorder has
\* stopped.
C12_OneMonitorFrameNoneAfterStop ==
    /\ Cardinality(PendingFrames) <= 1
    /\ ~showRecordModal => PendingFrames = {}
    /\ (\A s \in 1..Len(sessions) : sessions[s].rec /= "recording" /\ ~sessions[s].stopPending)
          => PendingFrames = {}

\* The sentiment names.
SentimentNames == {Sentiments[i] : i \in 1..Len(Sentiments)}

\* One frame took sentiment s to t: a step of s.speed toward s.target, set to
\* the target if it would reach or pass it; the target and speed are kept when
\* the new value is not the target, and drawn from the dice when it is.
C13_FrameOf(s, t) ==
    /\ s.value < s.target =>
         t.value = IF s.value + s.speed >= s.target THEN s.target ELSE s.value + s.speed
    /\ s.value > s.target =>
         t.value = IF s.value - s.speed <= s.target THEN s.target ELSE s.value - s.speed
    /\ s.value = s.target => t.value = s.value
    /\ (t.value - s.target) * (s.value - s.target) >= 0
    /\ t.value /= s.target => t.target = s.target /\ t.speed = s.speed
    /\ t.value = s.target => t.target \in FineDice.randoms /\ t.speed \in FineDice.speeds

\* C13: a frame applied to an unlocked segment moves each sentiment toward its
\* target by exactly its speed, or onto the target when the step would reach or
\* pass it, never beyond; a new target and speed are drawn exactly on the frames
\* whose new value is the target.
C13_FrameStepsTowardTarget ==
    [][\A i \in 1..Len(segments) :
         ~segments[i].locked =>
            \A n \in SentimentNames : C13_FrameOf(segments[i][n], segments'[i][n])]_vars

\* A frame has moved valence off the grid points Math.random() lands on, and
\* arousal has reached a target and drawn the next one.
C13_Witness ==
    /\ ~segments[1].locked
    /\ segments[1].valence.value \notin FineDice.randoms
    /\ segments[1].arousal.value = 3
    /\ segments[1].arousal.target = 0

\* C14: every sentiment value of every segment lies in [0,1].
C14_ValuesInUnitInterval ==
    \A i \in 1..Len(segments) : \A n \in SentimentNames :
        segments[i][n].value >= 0 /\ segments[i][n].value <= Unit

\* A frame has moved a value strictly inside the interval, next to a target at
\* its lower end.
C14_Witness ==
    /\ ~segments[1].locked
    /\ segments[1].dominance.value = 1
    /\ segments[1].dominance.target = 0

\* Sequence p is the first Len(p) elements of sequence q.
IsPrefix(p, q) == Len(p) <= Len(q) /\ \A k \in 1..Len(p) : p[k] = q[k]

\* C15: while the current page is in stage processing, animatedSegments is a
\* prefix of the segments the service returned, the ticks having appended the
\* segments in index order.
C15_AnimatedIsPrefixOfServer ==
    (home = "current" /\ stage = "processing") =>
        IsPrefix(animatedSegments, serverSegments)

\* An input has been accepted and its pipeline is under way: in the current
\* page the service has answered 200 for it, in the simulated Home one of its
\* timers is armed.
C16_Accepted ==
    \/ /\ home = "current"
       /\ \E r \in 1..Len(runs) :
            runs[r].status = 200 /\ runs[r].phase \in {"timeout", "interval"}
    \/ /\ home = "simulated"
       /\ \/ uploadTimeouts > 0
          \/ \E k \in 1..Len(lockIntervals) : lockIntervals[k].phase /= "done"

C17_AnalysisErrorOnlyInIdle ==
    (home = "current" /\ error = ProcessErrorMsg) => stage = "idle"

\* The indices of the locked segments.
LockedIndices == {i \in 1..Len(segments) : segments[i].locked}

\* C18: in the simulated Home the locked segments are the first ones in index
\* order, and stage finished is reached only with every segment locked.
C18_LocksInOrderAllBeforeFinished ==
    home = "simulated" =>
        /\ \E n \in 0..Len(segments) : LockedIndices = 1..n
        /\ stage = "finished" => LockedIndices = 1..Len(segments)

\* C19: in the simulated Home a locked segment stays locked and keeps its
\* valence, arousal and dominance values in every step, whether a frame of the
\* loop or a tick of a lock interval: frames change unlocked segments only.
C19_LockedSegmentsFrozen ==
    [][\A i \in 1..Len(segments) :
         (home = "simulated" /\ segments[i].locked) =>
            /\ segments'[i].locked
            /\ \A n \in SentimentNames :
                 segments'[i][n].value = segments[i][n].value]_vars

\* A segment is locked and a frame after the lock has moved an unlocked one
\* away from it: all segments start alike and move alike until one is locked.
C19_Witness ==
    /\ home = "simulated"
    /\ stage = "processing"
    /\ \E i, j \in 1..Len(segments) :
         /\ segments[i].locked
         /\ ~segments[j].locked
         /\ segments[j].valence.value /= segments[i].valence.value

\* C20: in the simulated Home a microphone track is live only while the
\* AudioRecorder is mounted and holds its stream, so that hiding the recorder
\* or starting a second time leaves no live track behind.
C20_NoLiveTrackLeftBehind ==
    home = "simulated" =>
        \A s \in 1..Len(sessions) :
            sessions[s].live => (RecorderMounted /\ mediaStream = s)

\* C21: closing the record modal while a recording is in progress discards the
\* recording: the close queues no stop event, whose handler onstop would call
\* onRecordingComplete, set stage uploading and send the clip for analysis.
C21_CloseDiscardsRecording ==
    [][(CloseModal /\ isRecording) =>
          \A s \in 1..Len(sessions) :
              sessions'[s].stopPending => sessions[s].stopPending]_vars

\* renderMusicPlayer: the player of recordedAudioUrl || uploadedAudioUrl, or
\* nothing when both are null.
RenderMusicPlayer ==
    LET audioUrl == IF recordedAudioUrl /= NullUrl THEN recordedAudioUrl
                                                   ELSE uploadedAudioUrl
    IN [rendered |-> audioUrl /= NullUrl,
        audioUrl |-> audioUrl,
        autoPlay |-> stage = "processing"]

\* C22: in the current page, in stage processing or finished an audio URL is
\* set and the music player is rendered, with autoPlay in processing only.
C22_PlayerRenderedWithAnalysedClip ==
    (home = "current" /\ stage \in {"processing", "finished"}) =>
        /\ recordedAudioUrl /= NullUrl \/ uploadedAudioUrl /= NullUrl
        /\ RenderMusicPlayer.rendered
        /\ RenderMusicPlayer.autoPlay = (stage = "processing")

\* C23: while stage is processing, SpeakerWithWaves reshuffles every 2 seconds:
\* once processing has lasted 2 s since the last shuffle, or since it began, the
\* shuffle callback is due, whatever renders the notes have caused meanwhile.
C23_ShuffleDueEveryTwoSeconds ==
    (home = "current" /\ stage = "processing" /\ sinceShuffle >= ShufflePeriod) =>
        shuffleElapsed >= ShufflePeriod

\* A step of SpeakerWithWaves adds notes in the processing stage only, and a
\* step that leaves the stage alone removes at most one note.
C24_NoteStep ==
    /\ musicNotes' \ musicNotes /= {} => (stage = "processing" /\ stage' = "processing")
    /\ stage' = stage => Cardinality(musicNotes \ musicNotes') <= 1

\* C24: notes are added only while stage is processing; every added note is
\* eventually removed, by its timeout or its transition end, whichever comes
\* first; removing one note removes no other; and once stage has left
\* processing musicNotes becomes empty.
C24_NotesAddedInProcessingAndRemoved ==
    /\ [][C24_NoteStep]_vars
    /\ \A id \in NoteIds : (id \in musicNotes) ~> (id \notin musicNotes)
    /\ (stage /= "processing") ~> (musicNotes = {})

\* Every note has been spawned in the processing stage and removed there, and
\* each removal timeout has fired.
C24_Witness ==
    /\ home = "current"
    /\ stage = "processing"
    /\ noteSeq = MaxNotes
    /\ musicNotes = {}
    /\ noteTimeouts = {}

\* The cubic segment i of the path of n >= 2 points as the claim describes it:
\* drawn from the points at (i-1) mod n, i, (i+1) mod n and (i+2) mod n, and
\* ending at the point at (i+1) mod n.
C25_SegmentOf(pts, i) ==
    LET n == Len(pts) IN
    Cubic(pts[((i - 1) % n) + 1], pts[i + 1], pts[((i + 1) % n) + 1],
          pts[((i + 2) % n) + 1])

\* C25: generateSmoothPath returns the empty path for fewer than 2 points; for
\* n >= 2 points it returns a move to points[0], then n cubic segments, segment
\* i drawn from the points at (i-1) mod n, i, (i+1) mod n and (i+2) mod n and
\* ending at points[(i+1) mod n], then a close, the last segment ending at
\* points[0].
C25_SmoothPathIsClosedCurve ==
    LET n == Len(points) IN
    /\ n < 2 => path = <<>>
    /\ n >= 2 =>
         /\ Len(path) = n + 2
         /\ path[1] = MoveTo(points[1])
         /\ \A i \in 0..(n - 1) :
               /\ path[i + 2] = C25_SegmentOf(points, i)
               /\ path[i + 2].cmd = "C"
               /\ path[i + 2].x = points[((i + 1) % n) + 1].x
               /\ path[i + 2].y = points[((i + 1) % n) + 1].y
         /\ path[n + 1].x = points[1].x
         /\ path[n + 1].y = points[1].y
         /\ path[n + 2] = ClosePath

\* A path of the largest number of points, whose first point has neighbours
\* that differ from each other.
C25_Witness ==
    /\ Len(points) = MaxPoints
    /\ Len(path) = MaxPoints + 2
    /\ points[MaxPoints] /= points[1]
    /\ points[2] /= points[MaxPoints]

\* The candidates left out of genres.
C26_Omitted ==
    {c \in 1..Len(scoredGenres) :
        \A i \in 1..Len(genres) : genres[i].name /= scoredGenres[c].name}

\* C26: when the simulated Home is in stage finished, genres holds exactly 3
\* entries with distinct names, each a candidate with its score, in
\* non-increasing order of score, and no candidate left out scores higher than
\* one that is included.
C26_TopThreeGenresByScore ==
    (home = "simulated" /\ stage = "finished") =>
        /\ Len(genres) = 3
        /\ \A i, j \in 1..Len(genres) : i /= j => genres[i].name /= genres[j].name
        /\ \A i \in 1..Len(genres) :
              \E c \in 1..Len(scoredGenres) : genres[i] = scoredGenres[c]
        /\ \A i \in 1..(Len(genres) - 1) : genres[i].score >= genres[i + 1].score
        /\ \A c \in C26_Omitted : \A i \in 1..Len(genres) :
              scoredGenres[c].score <= genres[i].score

\* The finish timeout has left out a candidate that ties with the last genre
\* shown, below a first genre that scores higher.
C26_Witness ==
    /\ home = "simulated"
    /\ stage = "finished"
    /\ Len(genres) = 3
    /\ genres[1].score > genres[3].score
    /\ \E c \in C26_Omitted : scoredGenres[c].score = genres[3].score

====
